---------------------------- MODULE Spec2Model ----------------------------
(***************************************************************************)
(* Model of Farhan8012/veracity-hub:                                       *)
(*   - the error normaliser getUserFriendlyError and the tag validator     *)
(*     validation.validateTag (error/validation module),                   *)
(*   - the verify-news request handler (supabase edge function).           *)
(*                                                                         *)
(* Three specifications share the module:                                  *)
(*   SpecError  one call of getUserFriendlyError on a drawn error value,   *)
(*   SpecTag    one call of validateTag on a drawn tag,                    *)
(*   Spec       one request through the verify-news handler, one action    *)
(*              per await / return of the handler.                         *)
(***************************************************************************)
EXTENDS Integers, Sequences, FiniteSets, TLC

VARIABLES
    \* ---- getUserFriendlyError ----
    error,          \* the argument
    errorCode,      \* local of line 34
    errorMessage,   \* local of line 35
    ret,            \* the returned value
    pcError,        \* "call" | "returned"
    \* ---- validateTag ----
    tag,            \* the argument, a sequence of UTF-16 code units
    tagResult,      \* the returned object
    pcTag,          \* "call" | "returned"
    \* ---- verify-news handler ----
    pc,             \* position of the handler
    req,            \* the request: [method, text]
    env,            \* Deno.env: the value of LOVABLE_API_KEY
    claim,          \* local of line 14
    LOVABLE_API_KEY,\* local of line 23
    response,       \* the upstream Response: [status, text, readable]
    result,         \* local of line 110
    toolCall,       \* local of line 114
    verification,   \* local of line 119
    exception,      \* the value thrown inside the try block
    responses,      \* the Responses the handler returned, in order
    dispatched,     \* number of upstream fetch calls made
    bodyRead,       \* req.json() was called
    keyRead,        \* Deno.env.get was called
    caught          \* number of times the catch block ran

errorVars == <<error, errorCode, errorMessage, ret, pcError>>
tagVars == <<tag, tagResult, pcTag>>
handlerVars == <<pc, req, env, claim, LOVABLE_API_KEY, response, result,
                 toolCall, verification, exception, responses, dispatched,
                 bodyRead, keyRead, caught>>
vars == <<errorVars, tagVars, handlerVars>>

(***************************************************************************)
(* JavaScript values.  A value is a record tagged by t; strings carry s,   *)
(* numbers n, booleans b, arrays a (a sequence), objects o (a function     *)
(* from property names to values), built-in functions/objects a name.      *)
(***************************************************************************)
Undefined == [t |-> "undefined"]
Null == [t |-> "null"]
Str(s) == [t |-> "string", s |-> s]
Num(n) == [t |-> "number", n |-> n]
Bool(b) == [t |-> "boolean", b |-> b]
Arr(a) == [t |-> "array", a |-> a]
Obj(o) == [t |-> "object", o |-> o]
Builtin(kind, name) == [t |-> kind, name |-> name]

\* ToBoolean: what `!v`, `v || w` and `if (v)` test.
Truthy(v) ==
    CASE v.t = "undefined" -> FALSE
      [] v.t = "null" -> FALSE
      [] v.t = "string" -> v.s # ""
      [] v.t = "number" -> v.n # 0
      [] v.t = "boolean" -> v.b
      [] OTHER -> TRUE

\* a || b
Or(a, b) == IF Truthy(a) THEN a ELSE b

\* v === undefined || v === null
Nullish(v) == v.t \in {"undefined", "null"}

(***************************************************************************)
(* Error normaliser (error/validation module, lines 1-73)                  *)
(***************************************************************************)
authErrorMap ==
    ("invalid_credentials" :> "Invalid email or password") @@
    ("invalid_login_credentials" :> "Invalid email or password") @@
    ("email_not_confirmed" :> "Please verify your email address") @@
    ("user_already_exists" :> "An account with this email already exists") @@
    ("email_already_exists" :> "An account with this email already exists") @@
    ("weak_password" :> "Password must be stronger") @@
    ("user_not_found" :> "No account found with this email") @@
    ("over_request_rate_limit" :> "Too many attempts. Please try again later") @@
    ("signup_disabled" :> "Sign up is currently disabled") @@
    ("invalid_email" :> "Please enter a valid email address") @@
    ("email_address_invalid" :> "Please enter a valid email address")

databaseErrorMap ==
    ("23505" :> "This record already exists") @@
    ("23503" :> "This operation cannot be completed due to related data") @@
    ("23514" :> "The provided data does not meet the requirements") @@
    ("42501" :> "You do not have permission to perform this action") @@
    ("PGRST116" :> "Record not found")

\* Both maps are plain object literals, so a property read that finds no own
\* property continues in Object.prototype.  These are the inherited
\* properties every plain object has.
ObjectPrototype ==
    ("constructor" :> Builtin("function", "Object")) @@
    ("toString" :> Builtin("function", "toString")) @@
    ("toLocaleString" :> Builtin("function", "toLocaleString")) @@
    ("valueOf" :> Builtin("function", "valueOf")) @@
    ("hasOwnProperty" :> Builtin("function", "hasOwnProperty")) @@
    ("isPrototypeOf" :> Builtin("function", "isPrototypeOf")) @@
    ("propertyIsEnumerable" :> Builtin("function", "propertyIsEnumerable")) @@
    ("__proto__" :> Builtin("object", "Object.prototype"))

\* map[key] for one of the two object-literal maps and a string key.
MapGet(map, key) ==
    IF key \in DOMAIN map THEN Str(map[key])
    ELSE IF key \in DOMAIN ObjectPrototype THEN ObjectPrototype[key]
    ELSE Undefined

UpperCase == "ABCDEFGHIJKLMNOPQRSTUVWXYZ"
LowerCase == "abcdefghijklmnopqrstuvwxyz"

\* One character of String.prototype.toLowerCase (ASCII range).
LowerChar(c) ==
    IF \E i \in 1..Len(UpperCase) : SubSeq(UpperCase, i, i) = c
    THEN LET i == CHOOSE j \in 1..Len(UpperCase) : SubSeq(UpperCase, j, j) = c
         IN SubSeq(LowerCase, i, i)
    ELSE c

RECURSIVE toLowerCase(_)
toLowerCase(s) ==
    IF s = "" THEN ""
    ELSE LowerChar(SubSeq(s, 1, 1)) \o toLowerCase(SubSeq(s, 2, Len(s)))

\* String.prototype.includes
includes(s, sub) ==
    \/ sub = ""
    \/ \E i \in 1..(Len(s) - Len(sub) + 1) : SubSeq(s, i, i + Len(sub) - 1) = sub

\* Mutant of ErrorCodeOf: nullish coalescing, error.code ?? error.error_code ?? ''
ErrorCodeOfNullish(e) ==
    IF ~Nullish(e.o.code) THEN e.o.code
    ELSE IF ~Nullish(e.o.error_code) THEN e.o.error_code
    ELSE Str("")

\* error.code || error.error_code || ''            (line 34)
ErrorCodeOf(e) == Or(Or(e.o.code, e.o.error_code), Str(""))

\* error.message || ''                             (line 35)
ErrorMessageOf(e) == Or(e.o.message, Str(""))

\* Lines 38-72, on the two locals.
Resolve(code, message) ==
    LET m == toLowerCase(message.s) IN
    IF Truthy(MapGet(authErrorMap, code.s)) THEN MapGet(authErrorMap, code.s)
    ELSE IF Truthy(MapGet(databaseErrorMap, code.s))
         THEN MapGet(databaseErrorMap, code.s)
    ELSE IF includes(m, "invalid login credentials")
         THEN Str("Invalid email or password")
    ELSE IF includes(m, "email not confirmed")
         THEN Str("Please verify your email address")
    ELSE IF includes(m, "already registered") \/ includes(m, "already exists")
         THEN Str("An account with this email already exists")
    ELSE IF includes(m, "network") \/ includes(m, "fetch")
         THEN Str("Network error. Please check your connection and try again.")
    ELSE IF includes(m, "timeout")
         THEN Str("Request timed out. Please try again.")
    ELSE Str("An error occurred. Please try again later.")

getUserFriendlyError(e) ==
    IF ~Truthy(e) THEN Str("An unexpected error occurred. Please try again.")
    ELSE Resolve(ErrorCodeOf(e), ErrorMessageOf(e))

\* The error values a call is made with: null, undefined, or an object whose
\* code, error_code and message are each absent (undefined), null or a string.
CodeValues ==
    {Undefined, Null, Str("")}
    \cup {Str(k) : k \in DOMAIN authErrorMap \cup DOMAIN databaseErrorMap}
    \cup {Str("unknown_code"), Str("INVALID_CREDENTIALS"), Str("constructor"),
          Str("__proto__"), Str("Record not found")}

ErrorCodeValues ==
    {Undefined, Str(""), Str("weak_password"), Str("23503"), Str("toString"),
     Str("other_code")}

MessageValues ==
    {Undefined, Null, Str(""),
     Str("Invalid login credentials"),
     Str("Email not confirmed"),
     Str("User already registered"),
     Str("Key (email) already exists"),
     Str("Network request failed"),
     Str("TypeError: Failed to fetch"),
     Str("Request timeout"),
     Str("network timeout"),
     Str("Fetch failed: email not confirmed"),
     Str("boom at db.ts:12"),
     Str("USER ALREADY REGISTERED"),
     Str("Database error saving new user")}

ErrorInputs ==
    {Null, Undefined}
    \cup {Obj([code |-> c, error_code |-> ec, message |-> m]) :
            c \in CodeValues, ec \in ErrorCodeValues, m \in MessageValues}

NotCalled == [t |-> "none"]

(***************************************************************************)
(* Tag validator (error/validation module, lines 78-101).  A tag is a      *)
(* sequence of UTF-16 code units.                                          *)
(***************************************************************************)
maxTagLength == 50

\* WhiteSpace and LineTerminator code units: what String.prototype.trim
\* strips and what \s matches.
IsWhiteSpace(c) ==
    \/ c \in {9, 10, 11, 12, 13, 32, 160, 5760, 8232, 8233, 8239, 8287, 12288, 65279}
    \/ c \in 8192..8202

RECURSIVE trimStart(_)
trimStart(s) ==
    IF s # <<>> /\ IsWhiteSpace(Head(s)) THEN trimStart(Tail(s)) ELSE s

RECURSIVE trimEnd(_)
trimEnd(s) ==
    IF s # <<>> /\ IsWhiteSpace(s[Len(s)])
    THEN trimEnd(SubSeq(s, 1, Len(s) - 1)) ELSE s

\* String.prototype.trim
trim(s) == trimEnd(trimStart(s))

\* The character class [a-zA-Z0-9\s\-_]
tagPatternClass(c) ==
    \/ c \in 97..122
    \/ c \in 65..90
    \/ c \in 48..57
    \/ IsWhiteSpace(c)
    \/ c = 45
    \/ c = 95

\* tagPattern.test(s) for /^[a-zA-Z0-9\s\-_]+$/
tagPatternTest(s) ==
    /\ Len(s) >= 1
    /\ \A i \in 1..Len(s) : tagPatternClass(s[i])

\* Mutant of validateTag: the length check reads the untrimmed tag.
validateTagUntrimmedLength(t) ==
    LET trimmed == trim(t) IN
    IF trimmed = <<>>
    THEN [valid |-> FALSE, error |-> "Tag cannot be empty"]
    ELSE IF Len(t) > maxTagLength
    THEN [valid |-> FALSE,
          error |-> "Tag must be " \o ToString(maxTagLength) \o " characters or less"]
    ELSE IF ~tagPatternTest(trimmed)
    THEN [valid |-> FALSE,
          error |-> "Tags can only contain letters, numbers, spaces, hyphens, and underscores"]
    ELSE [valid |-> TRUE]

validateTag(t) ==
    LET trimmed == trim(t) IN
    IF trimmed = <<>>
    THEN [valid |-> FALSE, error |-> "Tag cannot be empty"]
    ELSE IF Len(trimmed) > maxTagLength
    THEN [valid |-> FALSE,
          error |-> "Tag must be " \o ToString(maxTagLength) \o " characters or less"]
    ELSE IF ~tagPatternTest(trimmed)
    THEN [valid |-> FALSE,
          error |-> "Tags can only contain letters, numbers, spaces, hyphens, and underscores"]
    ELSE [valid |-> TRUE]

\* Bounds of the drawn tags.
MaxPad == 1
MaxHead == 2

\* a Z 5 space - _ ! e-acute no-break-space
TagChars == {97, 90, 53, 32, 45, 95, 33, 233, 160}

Repeat(c, n) == [i \in 1..n |-> c]

Heads == UNION {[1..n -> TagChars] : n \in 0..MaxHead}

\* Lengths of the run of 'x' that follows the head: none, or enough to put
\* the trimmed length on either side of maxTagLength.
FillLengths == {0} \cup ((maxTagLength - MaxHead - 1)..(maxTagLength + 1))

\* spaces, head, a run of 'x', tabs
TagInputs ==
    {Repeat(32, l) \o h \o Repeat(120, f) \o Repeat(9, r) :
        l \in 0..MaxPad, h \in Heads, f \in FillLengths, r \in 0..MaxPad}

(***************************************************************************)
(* verify-news handler (supabase/functions/verify-news/index.ts)           *)
(***************************************************************************)
corsHeaders ==
    ("Access-Control-Allow-Origin" :> "*") @@
    ("Access-Control-Allow-Headers" :> "authorization, x-client-info, apikey, content-type")

\* { ...corsHeaders, "Content-Type": "application/json" }
jsonHeaders == ("Content-Type" :> "application/json") @@ corsHeaders

\* JSON.parse on the texts that occur: a SyntaxError (ok = FALSE) or the value.
JSONParseTable ==
    ("" :>
        [ok |-> FALSE]) @@
    ("claim=The sky is green" :>
        [ok |-> FALSE]) @@
    ("null" :>
        [ok |-> TRUE, value |-> Null]) @@
    ("5" :>
        [ok |-> TRUE, value |-> Num(5)]) @@
    ("true" :>
        [ok |-> TRUE, value |-> Bool(TRUE)]) @@
    ("\"The sky is green\"" :>
        [ok |-> TRUE, value |-> Str("The sky is green")]) @@
    ("[]" :>
        [ok |-> TRUE, value |-> Arr(<<>>)]) @@
    ("[\"claim\"]" :>
        [ok |-> TRUE, value |-> Arr(<<Str("claim")>>)]) @@
    ("{}" :>
        [ok |-> TRUE, value |-> Obj(<<>>)]) @@
    ("{\"text\":\"The sky is green\"}" :>
        [ok |-> TRUE, value |-> Obj(("text" :> Str("The sky is green")))]) @@
    ("{\"claim\":null}" :>
        [ok |-> TRUE, value |-> Obj(("claim" :> Null))]) @@
    ("{\"claim\":5}" :>
        [ok |-> TRUE, value |-> Obj(("claim" :> Num(5)))]) @@
    ("{\"claim\":0}" :>
        [ok |-> TRUE, value |-> Obj(("claim" :> Num(0)))]) @@
    ("{\"claim\":true}" :>
        [ok |-> TRUE, value |-> Obj(("claim" :> Bool(TRUE)))]) @@
    ("{\"claim\":\"\"}" :>
        [ok |-> TRUE, value |-> Obj(("claim" :> Str("")))]) @@
    ("{\"claim\":[\"The sky is green\"]}" :>
        [ok |-> TRUE, value |-> Obj(("claim" :> Arr(<<Str("The sky is green")>>)))]) @@
    ("{\"claim\":{\"text\":\"x\"}}" :>
        [ok |-> TRUE, value |-> Obj(("claim" :> Obj(("text" :> Str("x")))))]) @@
    ("{\"claim\":\"The sky is green\"}" :>
        [ok |-> TRUE, value |-> Obj(("claim" :> Str("The sky is green")))]) @@
    ("{\"claim\":\"Water is wet\",\"lang\":\"en\"}" :>
        [ok |-> TRUE, value |-> Obj(("claim" :> Str("Water is wet")) @@ ("lang" :> Str("en")))]) @@
    ("upstream unavailable" :>
        [ok |-> FALSE]) @@
    ("42" :>
        [ok |-> TRUE, value |-> Num(42)]) @@
    ("{\"error\":{\"message\":\"bad request\"}}" :>
        [ok |-> TRUE, value |-> Obj(("error" :> Obj(("message" :> Str("bad request")))))]) @@
    ("{\"choices\":[]}" :>
        [ok |-> TRUE, value |-> Obj(("choices" :> Arr(<<>>)))]) @@
    ("{\"choices\":[{\"message\":{\"role\":\"assistant\",\"content\":\"False\"}}]}" :>
        [ok |-> TRUE, value |-> Obj(("choices" :> Arr(<<Obj(("message" :> Obj(("role" :> Str("assistant")) @@ ("content" :> Str("False")))))>>)))]) @@
    ("{\"choices\":[{\"message\":{\"tool_calls\":[]}}]}" :>
        [ok |-> TRUE, value |-> Obj(("choices" :> Arr(<<Obj(("message" :> Obj(("tool_calls" :> Arr(<<>>)))))>>)))]) @@
    ("{\"choices\":[{\"message\":{\"tool_calls\":[null]}}]}" :>
        [ok |-> TRUE, value |-> Obj(("choices" :> Arr(<<Obj(("message" :> Obj(("tool_calls" :> Arr(<<Null>>)))))>>)))]) @@
    ("{\"choices\":[{\"message\":{\"role\":\"assistant\",\"tool_calls\":[{\"id\":\"call_1\"}]}}]}" :>
        [ok |-> TRUE, value |-> Obj(("choices" :> Arr(<<Obj(("message" :> Obj(("role" :> Str("assistant")) @@ ("tool_calls" :> Arr(<<Obj(("id" :> Str("call_1")))>>)))))>>)))]) @@
    ("{\"choices\":[{\"message\":{\"role\":\"assistant\",\"tool_calls\":[{\"function\":{\"name\":\"verify_claim\"}}]}}]}" :>
        [ok |-> TRUE, value |-> Obj(("choices" :> Arr(<<Obj(("message" :> Obj(("role" :> Str("assistant")) @@ ("tool_calls" :> Arr(<<Obj(("function" :> Obj(("name" :> Str("verify_claim")))))>>)))))>>)))]) @@
    ("{\"choices\":[{\"message\":{\"role\":\"assistant\",\"tool_calls\":[{\"function\":{\"name\":\"verify_claim\",\"arguments\":{\"verdict\":\"True\",\"confidence\":90,\"reasoning\":\"r\"}}}]}}]}" :>
        [ok |-> TRUE, value |-> Obj(("choices" :> Arr(<<Obj(("message" :> Obj(("role" :> Str("assistant")) @@ ("tool_calls" :> Arr(<<Obj(("function" :> Obj(("name" :> Str("verify_claim")) @@ ("arguments" :> Obj(("verdict" :> Str("True")) @@ ("confidence" :> Num(90)) @@ ("reasoning" :> Str("r")))))))>>)))))>>)))]) @@
    ("{\"choices\":[{\"message\":{\"role\":\"assistant\",\"tool_calls\":[{\"function\":{\"name\":\"verify_claim\",\"arguments\":\"{\\\"verdict\\\":\\\"False\\\",\\\"confidence\\\":95,\\\"reasoning\\\":\\\"The sky is blue.\\\"}\"}},{\"function\":{\"name\":\"verify_claim\",\"arguments\":\"{\\\"verdict\\\":\\\"True\\\",\\\"confidence\\\":0,\\\"reasoning\\\":\\\"r\\\"}\"}}]}},{\"message\":{\"tool_calls\":[{\"function\":{\"name\":\"verify_claim\",\"arguments\":\"{\\\"verdict\\\":\\\"Uncertain\\\",\\\"confidence\\\":100,\\\"reasoning\\\":\\\"r\\\"}\"}}]}}]}" :>
        [ok |-> TRUE, value |-> Obj(("choices" :> Arr(<<Obj(("message" :> Obj(("role" :> Str("assistant")) @@ ("tool_calls" :> Arr(<<Obj(("function" :> Obj(("name" :> Str("verify_claim")) @@ ("arguments" :> Str("{\"verdict\":\"False\",\"confidence\":95,\"reasoning\":\"The sky is blue.\"}"))))), Obj(("function" :> Obj(("name" :> Str("verify_claim")) @@ ("arguments" :> Str("{\"verdict\":\"True\",\"confidence\":0,\"reasoning\":\"r\"}")))))>>))))), Obj(("message" :> Obj(("tool_calls" :> Arr(<<Obj(("function" :> Obj(("name" :> Str("verify_claim")) @@ ("arguments" :> Str("{\"verdict\":\"Uncertain\",\"confidence\":100,\"reasoning\":\"r\"}")))))>>)))))>>)))]) @@
    ("{\"choices\":[{\"message\":{\"role\":\"assistant\",\"tool_calls\":[{\"function\":{\"name\":\"verify_claim\",\"arguments\":\"{\\\"verdict\\\":\\\"False\\\",\\\"confidence\\\":95,\\\"reasoning\\\":\\\"The sky is blue.\\\"}\"}}]}}]}" :>
        [ok |-> TRUE, value |-> Obj(("choices" :> Arr(<<Obj(("message" :> Obj(("role" :> Str("assistant")) @@ ("tool_calls" :> Arr(<<Obj(("function" :> Obj(("name" :> Str("verify_claim")) @@ ("arguments" :> Str("{\"verdict\":\"False\",\"confidence\":95,\"reasoning\":\"The sky is blue.\"}")))))>>)))))>>)))]) @@
    ("{\"choices\":[{\"message\":{\"role\":\"assistant\",\"tool_calls\":[{\"function\":{\"name\":\"verify_claim\",\"arguments\":\"{\\\"verdict\\\":\\\"True\\\",\\\"confidence\\\":0,\\\"reasoning\\\":\\\"r\\\"}\"}}]}}]}" :>
        [ok |-> TRUE, value |-> Obj(("choices" :> Arr(<<Obj(("message" :> Obj(("role" :> Str("assistant")) @@ ("tool_calls" :> Arr(<<Obj(("function" :> Obj(("name" :> Str("verify_claim")) @@ ("arguments" :> Str("{\"verdict\":\"True\",\"confidence\":0,\"reasoning\":\"r\"}")))))>>)))))>>)))]) @@
    ("{\"choices\":[{\"message\":{\"role\":\"assistant\",\"tool_calls\":[{\"function\":{\"name\":\"verify_claim\",\"arguments\":\"{\\\"verdict\\\":\\\"Uncertain\\\",\\\"confidence\\\":100,\\\"reasoning\\\":\\\"r\\\"}\"}}]}}]}" :>
        [ok |-> TRUE, value |-> Obj(("choices" :> Arr(<<Obj(("message" :> Obj(("role" :> Str("assistant")) @@ ("tool_calls" :> Arr(<<Obj(("function" :> Obj(("name" :> Str("verify_claim")) @@ ("arguments" :> Str("{\"verdict\":\"Uncertain\",\"confidence\":100,\"reasoning\":\"r\"}")))))>>)))))>>)))]) @@
    ("{\"choices\":[{\"message\":{\"role\":\"assistant\",\"tool_calls\":[{\"function\":{\"name\":\"verify_claim\",\"arguments\":\"{\\\"verdict\\\":\\\"Maybe\\\",\\\"confidence\\\":95,\\\"reasoning\\\":\\\"r\\\"}\"}}]}}]}" :>
        [ok |-> TRUE, value |-> Obj(("choices" :> Arr(<<Obj(("message" :> Obj(("role" :> Str("assistant")) @@ ("tool_calls" :> Arr(<<Obj(("function" :> Obj(("name" :> Str("verify_claim")) @@ ("arguments" :> Str("{\"verdict\":\"Maybe\",\"confidence\":95,\"reasoning\":\"r\"}")))))>>)))))>>)))]) @@
    ("{\"choices\":[{\"message\":{\"role\":\"assistant\",\"tool_calls\":[{\"function\":{\"name\":\"verify_claim\",\"arguments\":\"{\\\"verdict\\\":\\\"True\\\",\\\"confidence\\\":150,\\\"reasoning\\\":\\\"r\\\"}\"}}]}}]}" :>
        [ok |-> TRUE, value |-> Obj(("choices" :> Arr(<<Obj(("message" :> Obj(("role" :> Str("assistant")) @@ ("tool_calls" :> Arr(<<Obj(("function" :> Obj(("name" :> Str("verify_claim")) @@ ("arguments" :> Str("{\"verdict\":\"True\",\"confidence\":150,\"reasoning\":\"r\"}")))))>>)))))>>)))]) @@
    ("{\"choices\":[{\"message\":{\"role\":\"assistant\",\"tool_calls\":[{\"function\":{\"name\":\"verify_claim\",\"arguments\":\"{\\\"verdict\\\":\\\"False\\\",\\\"confidence\\\":-1,\\\"reasoning\\\":\\\"r\\\"}\"}}]}}]}" :>
        [ok |-> TRUE, value |-> Obj(("choices" :> Arr(<<Obj(("message" :> Obj(("role" :> Str("assistant")) @@ ("tool_calls" :> Arr(<<Obj(("function" :> Obj(("name" :> Str("verify_claim")) @@ ("arguments" :> Str("{\"verdict\":\"False\",\"confidence\":-1,\"reasoning\":\"r\"}")))))>>)))))>>)))]) @@
    ("{\"choices\":[{\"message\":{\"role\":\"assistant\",\"tool_calls\":[{\"function\":{\"name\":\"verify_claim\",\"arguments\":\"{\\\"verdict\\\":\\\"True\\\",\\\"confidence\\\":\\\"high\\\",\\\"reasoning\\\":\\\"r\\\"}\"}}]}}]}" :>
        [ok |-> TRUE, value |-> Obj(("choices" :> Arr(<<Obj(("message" :> Obj(("role" :> Str("assistant")) @@ ("tool_calls" :> Arr(<<Obj(("function" :> Obj(("name" :> Str("verify_claim")) @@ ("arguments" :> Str("{\"verdict\":\"True\",\"confidence\":\"high\",\"reasoning\":\"r\"}")))))>>)))))>>)))]) @@
    ("{\"choices\":[{\"message\":{\"role\":\"assistant\",\"tool_calls\":[{\"function\":{\"name\":\"verify_claim\",\"arguments\":\"{\\\"verdict\\\":\\\"True\\\",\\\"confidence\\\":80}\"}}]}}]}" :>
        [ok |-> TRUE, value |-> Obj(("choices" :> Arr(<<Obj(("message" :> Obj(("role" :> Str("assistant")) @@ ("tool_calls" :> Arr(<<Obj(("function" :> Obj(("name" :> Str("verify_claim")) @@ ("arguments" :> Str("{\"verdict\":\"True\",\"confidence\":80}")))))>>)))))>>)))]) @@
    ("{\"choices\":[{\"message\":{\"role\":\"assistant\",\"tool_calls\":[{\"function\":{\"name\":\"verify_claim\",\"arguments\":\"{}\"}}]}}]}" :>
        [ok |-> TRUE, value |-> Obj(("choices" :> Arr(<<Obj(("message" :> Obj(("role" :> Str("assistant")) @@ ("tool_calls" :> Arr(<<Obj(("function" :> Obj(("name" :> Str("verify_claim")) @@ ("arguments" :> Str("{}")))))>>)))))>>)))]) @@
    ("{\"choices\":[{\"message\":{\"role\":\"assistant\",\"tool_calls\":[{\"function\":{\"name\":\"verify_claim\",\"arguments\":\"null\"}}]}}]}" :>
        [ok |-> TRUE, value |-> Obj(("choices" :> Arr(<<Obj(("message" :> Obj(("role" :> Str("assistant")) @@ ("tool_calls" :> Arr(<<Obj(("function" :> Obj(("name" :> Str("verify_claim")) @@ ("arguments" :> Str("null")))))>>)))))>>)))]) @@
    ("{\"choices\":[{\"message\":{\"role\":\"assistant\",\"tool_calls\":[{\"function\":{\"name\":\"verify_claim\",\"arguments\":\"7\"}}]}}]}" :>
        [ok |-> TRUE, value |-> Obj(("choices" :> Arr(<<Obj(("message" :> Obj(("role" :> Str("assistant")) @@ ("tool_calls" :> Arr(<<Obj(("function" :> Obj(("name" :> Str("verify_claim")) @@ ("arguments" :> Str("7")))))>>)))))>>)))]) @@
    ("{\"choices\":[{\"message\":{\"role\":\"assistant\",\"tool_calls\":[{\"function\":{\"name\":\"verify_claim\",\"arguments\":\"{\\\"verdict\\\":\"}}]}}]}" :>
        [ok |-> TRUE, value |-> Obj(("choices" :> Arr(<<Obj(("message" :> Obj(("role" :> Str("assistant")) @@ ("tool_calls" :> Arr(<<Obj(("function" :> Obj(("name" :> Str("verify_claim")) @@ ("arguments" :> Str("{\"verdict\":")))))>>)))))>>)))]) @@
    ("{\"choices\":[{\"message\":{\"role\":\"assistant\",\"tool_calls\":[{\"function\":{\"name\":\"verify_claim\",\"arguments\":\"I think the claim is false\"}}]}}]}" :>
        [ok |-> TRUE, value |-> Obj(("choices" :> Arr(<<Obj(("message" :> Obj(("role" :> Str("assistant")) @@ ("tool_calls" :> Arr(<<Obj(("function" :> Obj(("name" :> Str("verify_claim")) @@ ("arguments" :> Str("I think the claim is false")))))>>)))))>>)))]) @@
    ("{\"verdict\":\"False\",\"confidence\":95,\"reasoning\":\"The sky is blue.\"}" :>
        [ok |-> TRUE, value |-> Obj(("verdict" :> Str("False")) @@ ("confidence" :> Num(95)) @@ ("reasoning" :> Str("The sky is blue.")))]) @@
    ("{\"verdict\":\"True\",\"confidence\":0,\"reasoning\":\"r\"}" :>
        [ok |-> TRUE, value |-> Obj(("verdict" :> Str("True")) @@ ("confidence" :> Num(0)) @@ ("reasoning" :> Str("r")))]) @@
    ("{\"verdict\":\"Uncertain\",\"confidence\":100,\"reasoning\":\"r\"}" :>
        [ok |-> TRUE, value |-> Obj(("verdict" :> Str("Uncertain")) @@ ("confidence" :> Num(100)) @@ ("reasoning" :> Str("r")))]) @@
    ("{\"verdict\":\"Maybe\",\"confidence\":95,\"reasoning\":\"r\"}" :>
        [ok |-> TRUE, value |-> Obj(("verdict" :> Str("Maybe")) @@ ("confidence" :> Num(95)) @@ ("reasoning" :> Str("r")))]) @@
    ("{\"verdict\":\"True\",\"confidence\":150,\"reasoning\":\"r\"}" :>
        [ok |-> TRUE, value |-> Obj(("verdict" :> Str("True")) @@ ("confidence" :> Num(150)) @@ ("reasoning" :> Str("r")))]) @@
    ("{\"verdict\":\"False\",\"confidence\":-1,\"reasoning\":\"r\"}" :>
        [ok |-> TRUE, value |-> Obj(("verdict" :> Str("False")) @@ ("confidence" :> Num(-1)) @@ ("reasoning" :> Str("r")))]) @@
    ("{\"verdict\":\"True\",\"confidence\":\"high\",\"reasoning\":\"r\"}" :>
        [ok |-> TRUE, value |-> Obj(("verdict" :> Str("True")) @@ ("confidence" :> Str("high")) @@ ("reasoning" :> Str("r")))]) @@
    ("{\"verdict\":\"True\",\"confidence\":80}" :>
        [ok |-> TRUE, value |-> Obj(("verdict" :> Str("True")) @@ ("confidence" :> Num(80)))]) @@
    ("7" :>
        [ok |-> TRUE, value |-> Num(7)]) @@
    ("{\"verdict\":" :>
        [ok |-> FALSE]) @@
    ("I think the claim is false" :>
        [ok |-> FALSE]) @@
    ("undefined" :>
        [ok |-> FALSE]) @@
    ("[object Object]" :>
        [ok |-> FALSE])

\* Request bodies a client may send.
RequestTexts ==
    {"",
     "claim=The sky is green",
     "null",
     "5",
     "true",
     "\"The sky is green\"",
     "[]",
     "[\"claim\"]",
     "{}",
     "{\"text\":\"The sky is green\"}",
     "{\"claim\":null}",
     "{\"claim\":5}",
     "{\"claim\":0}",
     "{\"claim\":true}",
     "{\"claim\":\"\"}",
     "{\"claim\":[\"The sky is green\"]}",
     "{\"claim\":{\"text\":\"x\"}}",
     "{\"claim\":\"The sky is green\"}",
     "{\"claim\":\"Water is wet\",\"lang\":\"en\"}"}

\* Bodies the upstream gateway may reply with.
UpstreamTexts ==
    {"",
     "upstream unavailable",
     "null",
     "42",
     "{}",
     "{\"error\":{\"message\":\"bad request\"}}",
     "{\"choices\":[]}",
     "{\"choices\":[{\"message\":{\"role\":\"assistant\",\"content\":\"False\"}}]}",
     "{\"choices\":[{\"message\":{\"tool_calls\":[]}}]}",
     "{\"choices\":[{\"message\":{\"tool_calls\":[null]}}]}",
     "{\"choices\":[{\"message\":{\"role\":\"assistant\",\"tool_calls\":[{\"id\":\"call_1\"}]}}]}",
     "{\"choices\":[{\"message\":{\"role\":\"assistant\",\"tool_calls\":[{\"function\":{\"name\":\"verify_claim\"}}]}}]}",
     "{\"choices\":[{\"message\":{\"role\":\"assistant\",\"tool_calls\":[{\"function\":{\"name\":\"verify_claim\",\"arguments\":{\"verdict\":\"True\",\"confidence\":90,\"reasoning\":\"r\"}}}]}}]}",
     "{\"choices\":[{\"message\":{\"role\":\"assistant\",\"tool_calls\":[{\"function\":{\"name\":\"verify_claim\",\"arguments\":\"{\\\"verdict\\\":\\\"False\\\",\\\"confidence\\\":95,\\\"reasoning\\\":\\\"The sky is blue.\\\"}\"}},{\"function\":{\"name\":\"verify_claim\",\"arguments\":\"{\\\"verdict\\\":\\\"True\\\",\\\"confidence\\\":0,\\\"reasoning\\\":\\\"r\\\"}\"}}]}},{\"message\":{\"tool_calls\":[{\"function\":{\"name\":\"verify_claim\",\"arguments\":\"{\\\"verdict\\\":\\\"Uncertain\\\",\\\"confidence\\\":100,\\\"reasoning\\\":\\\"r\\\"}\"}}]}}]}",
     "{\"choices\":[{\"message\":{\"role\":\"assistant\",\"tool_calls\":[{\"function\":{\"name\":\"verify_claim\",\"arguments\":\"{\\\"verdict\\\":\\\"False\\\",\\\"confidence\\\":95,\\\"reasoning\\\":\\\"The sky is blue.\\\"}\"}}]}}]}",
     "{\"choices\":[{\"message\":{\"role\":\"assistant\",\"tool_calls\":[{\"function\":{\"name\":\"verify_claim\",\"arguments\":\"{\\\"verdict\\\":\\\"True\\\",\\\"confidence\\\":0,\\\"reasoning\\\":\\\"r\\\"}\"}}]}}]}",
     "{\"choices\":[{\"message\":{\"role\":\"assistant\",\"tool_calls\":[{\"function\":{\"name\":\"verify_claim\",\"arguments\":\"{\\\"verdict\\\":\\\"Uncertain\\\",\\\"confidence\\\":100,\\\"reasoning\\\":\\\"r\\\"}\"}}]}}]}",
     "{\"choices\":[{\"message\":{\"role\":\"assistant\",\"tool_calls\":[{\"function\":{\"name\":\"verify_claim\",\"arguments\":\"{\\\"verdict\\\":\\\"Maybe\\\",\\\"confidence\\\":95,\\\"reasoning\\\":\\\"r\\\"}\"}}]}}]}",
     "{\"choices\":[{\"message\":{\"role\":\"assistant\",\"tool_calls\":[{\"function\":{\"name\":\"verify_claim\",\"arguments\":\"{\\\"verdict\\\":\\\"True\\\",\\\"confidence\\\":150,\\\"reasoning\\\":\\\"r\\\"}\"}}]}}]}",
     "{\"choices\":[{\"message\":{\"role\":\"assistant\",\"tool_calls\":[{\"function\":{\"name\":\"verify_claim\",\"arguments\":\"{\\\"verdict\\\":\\\"False\\\",\\\"confidence\\\":-1,\\\"reasoning\\\":\\\"r\\\"}\"}}]}}]}",
     "{\"choices\":[{\"message\":{\"role\":\"assistant\",\"tool_calls\":[{\"function\":{\"name\":\"verify_claim\",\"arguments\":\"{\\\"verdict\\\":\\\"True\\\",\\\"confidence\\\":\\\"high\\\",\\\"reasoning\\\":\\\"r\\\"}\"}}]}}]}",
     "{\"choices\":[{\"message\":{\"role\":\"assistant\",\"tool_calls\":[{\"function\":{\"name\":\"verify_claim\",\"arguments\":\"{\\\"verdict\\\":\\\"True\\\",\\\"confidence\\\":80}\"}}]}}]}",
     "{\"choices\":[{\"message\":{\"role\":\"assistant\",\"tool_calls\":[{\"function\":{\"name\":\"verify_claim\",\"arguments\":\"{}\"}}]}}]}",
     "{\"choices\":[{\"message\":{\"role\":\"assistant\",\"tool_calls\":[{\"function\":{\"name\":\"verify_claim\",\"arguments\":\"null\"}}]}}]}",
     "{\"choices\":[{\"message\":{\"role\":\"assistant\",\"tool_calls\":[{\"function\":{\"name\":\"verify_claim\",\"arguments\":\"7\"}}]}}]}",
     "{\"choices\":[{\"message\":{\"role\":\"assistant\",\"tool_calls\":[{\"function\":{\"name\":\"verify_claim\",\"arguments\":\"{\\\"verdict\\\":\"}}]}}]}",
     "{\"choices\":[{\"message\":{\"role\":\"assistant\",\"tool_calls\":[{\"function\":{\"name\":\"verify_claim\",\"arguments\":\"I think the claim is false\"}}]}}]}"}

\* JSON.parse(text)
JSONParse(text) == JSONParseTable[text]

\* Array.prototype.join(",") over the elements' own string forms.
RECURSIVE ToStringJS(_)
ToStringJS(v) ==
    CASE v.t = "string" -> v.s
      [] v.t = "undefined" -> "undefined"
      [] v.t = "null" -> "null"
      [] v.t = "number" -> ToString(v.n)
      [] v.t = "boolean" -> IF v.b THEN "true" ELSE "false"
      [] v.t = "array" ->
            LET RECURSIVE Join(_)
                Join(a) ==
                    IF a = <<>> THEN ""
                    ELSE (IF Nullish(Head(a)) THEN "" ELSE ToStringJS(Head(a)))
                         \o (IF Len(a) > 1 THEN "," ELSE "") \o Join(Tail(a))
            IN Join(v.a)
      [] OTHER -> "[object Object]"

\* JSON.stringify(object literal): properties whose value is undefined are
\* left out; the body is kept as the object the text denotes.
JSONStringify(o) ==
    Obj([k \in {j \in DOMAIN o : o[j].t # "undefined"} |-> o[k]])

\* v.k on a value that is neither null nor undefined.  None of the names read
\* (claim, choices, message, tool_calls, function, arguments, verdict,
\* confidence, reasoning) is inherited from a prototype.
Get(v, k) ==
    IF v.t = "object" /\ k \in DOMAIN v.o THEN v.o[k] ELSE Undefined

\* v[0] on a value that is neither null nor undefined.
Index0(v) ==
    CASE v.t = "array" -> IF v.a = <<>> THEN Undefined ELSE v.a[1]
      [] v.t = "string" -> IF v.s = "" THEN Undefined ELSE Str(SubSeq(v.s, 1, 1))
      [] OTHER -> Get(v, "0")

\* v?.k and v?.[0]
OptGet(v, k) == IF Nullish(v) THEN Undefined ELSE Get(v, k)
OptIndex0(v) == IF Nullish(v) THEN Undefined ELSE Index0(v)

\* new Error(message) and the engine's own errors; all are Error instances.
Exc(name, message) == [name |-> name, message |-> message, isError |-> TRUE]
CannotRead(v, prop) ==
    Exc("TypeError",
        "Cannot read properties of " \o v.t \o " (reading '" \o prop \o "')")
SyntaxErr == Exc("SyntaxError", "Unexpected token in JSON")
BodyReadErr == Exc("TypeError", "error reading a body from connection")
FetchErr == Exc("TypeError", "error sending request")
NoException == [name |-> "none"]

\* new Response(body, {status, headers}); status defaults to 200.
Response(status, headers, body) ==
    [status |-> status, headers |-> headers, body |-> body]

\* response.ok
Ok(r) == r.status \in 200..299

Methods == {"OPTIONS", "POST", "GET"}

Requests ==
    [method : Methods, text : RequestTexts, readable : BOOLEAN]

\* Deno.env.get("LOVABLE_API_KEY"): unset, set empty, set.
EnvValues == {Undefined, Str(""), Str("sk-lovable")}

UpstreamStatuses == {200, 201, 299, 304, 400, 402, 429, 500, 503}

UpstreamResponses ==
    [status : UpstreamStatuses, text : UpstreamTexts, readable : BOOLEAN]

NoResponse == [status |-> 0]

Throw(e) ==
    /\ exception' = e
    /\ pc' = "catch"

Return(r) ==
    /\ responses' = Append(responses, r)
    /\ pc' = "done"

\* Lines 9-11.
Preflight ==
    /\ pc = "start"
    /\ req.method = "OPTIONS"
    /\ Return(Response(200, corsHeaders, Null))
    /\ UNCHANGED <<req, env, claim, LOVABLE_API_KEY, response, result, toolCall,
                   verification, exception, dispatched, bodyRead, keyRead, caught>>
    /\ UNCHANGED <<errorVars, tagVars>>

\* Line 14: const { claim } = await req.json()
ReadJson ==
    /\ pc = "start"
    /\ req.method # "OPTIONS"
    /\ bodyRead' = TRUE
    /\ IF ~req.readable
       THEN Throw(BodyReadErr) /\ UNCHANGED claim
       ELSE LET p == JSONParse(req.text) IN
            IF ~p.ok THEN Throw(SyntaxErr) /\ UNCHANGED claim
            ELSE IF Nullish(p.value)
            THEN /\ Throw(Exc("TypeError",
                        "Cannot destructure property 'claim' of '(intermediate value)' as it is null."))
                 /\ UNCHANGED claim
            ELSE /\ claim' = Get(p.value, "claim")
                 /\ pc' = "claimCheck"
                 /\ UNCHANGED exception
    /\ UNCHANGED <<req, env, LOVABLE_API_KEY, response, result, toolCall,
                   verification, responses, dispatched, keyRead, caught>>
    /\ UNCHANGED <<errorVars, tagVars>>

\* Line 16: !claim || typeof claim !== "string"
ClaimInvalid(c) == ~Truthy(c) \/ c.t # "string"

\* Lines 16-21.
RejectClaim ==
    /\ pc = "claimCheck"
    /\ ClaimInvalid(claim)
    /\ Return(Response(400, jsonHeaders,
                JSONStringify([error |-> Str("Missing or invalid 'claim' field")])))
    /\ UNCHANGED <<req, env, claim, LOVABLE_API_KEY, response, result, toolCall,
                   verification, exception, dispatched, bodyRead, keyRead, caught>>
    /\ UNCHANGED <<errorVars, tagVars>>

\* Lines 23-26.
ConfigCheck ==
    /\ pc = "claimCheck"
    /\ ~ClaimInvalid(claim)
    /\ keyRead' = TRUE
    /\ LOVABLE_API_KEY' = env
    /\ IF ~Truthy(env)
       THEN Throw(Exc("Error", "LOVABLE_API_KEY is not configured"))
       ELSE pc' = "dispatch" /\ UNCHANGED exception
    /\ UNCHANGED <<req, env, claim, response, result, toolCall, verification,
                   responses, dispatched, bodyRead, caught>>
    /\ UNCHANGED <<errorVars, tagVars>>

\* Lines 80-87: the fetch call is made.
Dispatch ==
    /\ pc = "dispatch"
    /\ dispatched' = dispatched + 1
    /\ pc' = "awaitFetch"
    /\ UNCHANGED <<req, env, claim, LOVABLE_API_KEY, response, result, toolCall,
                   verification, exception, responses, bodyRead, keyRead, caught>>
    /\ UNCHANGED <<errorVars, tagVars>>

\* Line 80: the awaited fetch rejects (network failure).
FetchRejects ==
    /\ pc = "awaitFetch"
    /\ Throw(FetchErr)
    /\ UNCHANGED <<req, env, claim, LOVABLE_API_KEY, response, result, toolCall,
                   verification, responses, dispatched, bodyRead, keyRead, caught>>
    /\ UNCHANGED <<errorVars, tagVars>>

\* Line 80: the awaited fetch resolves with the upstream's Response.
FetchResolves ==
    /\ pc = "awaitFetch"
    /\ \E r \in UpstreamResponses : response' = r
    /\ pc' = "checkOk"
    /\ UNCHANGED <<req, env, claim, LOVABLE_API_KEY, result, toolCall,
                   verification, exception, responses, dispatched, bodyRead,
                   keyRead, caught>>
    /\ UNCHANGED <<errorVars, tagVars>>

\* Mutant of RateLimited: a 429 is retried instead of being reported.
RateLimitedRetry ==
    /\ pc = "checkOk"
    /\ ~Ok(response)
    /\ response.status = 429
    /\ pc' = "dispatch"
    /\ UNCHANGED <<req, env, claim, LOVABLE_API_KEY, response, result, toolCall,
                   verification, exception, responses, dispatched, bodyRead,
                   keyRead, caught>>
    /\ UNCHANGED <<errorVars, tagVars>>

\* Lines 89-95.
RateLimited ==
    /\ pc = "checkOk"
    /\ ~Ok(response)
    /\ response.status = 429
    /\ Return(Response(429, jsonHeaders,
                JSONStringify([error |-> Str("Rate limit exceeded. Please try again later.")])))
    /\ UNCHANGED <<req, env, claim, LOVABLE_API_KEY, response, result, toolCall,
                   verification, exception, dispatched, bodyRead, keyRead, caught>>
    /\ UNCHANGED <<errorVars, tagVars>>

\* Lines 96-101.
PaymentRequired ==
    /\ pc = "checkOk"
    /\ ~Ok(response)
    /\ response.status # 429
    /\ response.status = 402
    /\ Return(Response(402, jsonHeaders,
                JSONStringify([error |->
                    Str("Payment required. Please add credits to your Lovable AI workspace.")])))
    /\ UNCHANGED <<req, env, claim, LOVABLE_API_KEY, response, result, toolCall,
                   verification, exception, dispatched, bodyRead, keyRead, caught>>
    /\ UNCHANGED <<errorVars, tagVars>>

\* Mutant of GatewayError: the upstream status is passed through.
GatewayErrorPassThrough ==
    /\ pc = "checkOk"
    /\ ~Ok(response)
    /\ response.status \notin {429, 402}
    /\ IF ~response.readable
       THEN Throw(BodyReadErr) /\ UNCHANGED responses
       ELSE /\ Return(Response(response.status, jsonHeaders,
                        JSONStringify([error |-> Str("AI gateway error"),
                                       details |-> Str(response.text)])))
            /\ UNCHANGED exception
    /\ UNCHANGED <<req, env, claim, LOVABLE_API_KEY, response, result, toolCall,
                   verification, dispatched, bodyRead, keyRead, caught>>
    /\ UNCHANGED <<errorVars, tagVars>>

\* Lines 102-107: await response.text(), then the 500.
GatewayError ==
    /\ pc = "checkOk"
    /\ ~Ok(response)
    /\ response.status \notin {429, 402}
    /\ IF ~response.readable
       THEN Throw(BodyReadErr) /\ UNCHANGED responses
       ELSE /\ Return(Response(500, jsonHeaders,
                        JSONStringify([error |-> Str("AI gateway error"),
                                       details |-> Str(response.text)])))
            /\ UNCHANGED exception
    /\ UNCHANGED <<req, env, claim, LOVABLE_API_KEY, response, result, toolCall,
                   verification, dispatched, bodyRead, keyRead, caught>>
    /\ UNCHANGED <<errorVars, tagVars>>

\* Line 110: const result = await response.json()
ParseResult ==
    /\ pc = "checkOk"
    /\ Ok(response)
    /\ IF ~response.readable
       THEN Throw(BodyReadErr) /\ UNCHANGED result
       ELSE LET p == JSONParse(response.text) IN
            IF ~p.ok THEN Throw(SyntaxErr) /\ UNCHANGED result
            ELSE /\ result' = p.value
                 /\ pc' = "extract"
                 /\ UNCHANGED exception
    /\ UNCHANGED <<req, env, claim, LOVABLE_API_KEY, response, toolCall,
                   verification, responses, dispatched, bodyRead, keyRead, caught>>
    /\ UNCHANGED <<errorVars, tagVars>>

\* Line 114: result.choices?.[0]?.message?.tool_calls?.[0]
FirstToolCall(r) ==
    OptIndex0(OptGet(OptGet(OptIndex0(Get(r, "choices")), "message"), "tool_calls"))

\* Lines 114-117.
ExtractToolCall ==
    /\ pc = "extract"
    /\ IF Nullish(result)
       THEN Throw(CannotRead(result, "choices")) /\ UNCHANGED toolCall
       ELSE /\ toolCall' = FirstToolCall(result)
            /\ IF ~Truthy(FirstToolCall(result))
               THEN Throw(Exc("Error", "No tool call in AI response"))
               ELSE pc' = "parseArguments" /\ UNCHANGED exception
    /\ UNCHANGED <<req, env, claim, LOVABLE_API_KEY, response, result,
                   verification, responses, dispatched, bodyRead, keyRead, caught>>
    /\ UNCHANGED <<errorVars, tagVars>>

\* Line 119: JSON.parse(toolCall.function.arguments)
ParseArguments ==
    /\ pc = "parseArguments"
    /\ LET fn == Get(toolCall, "function") IN
       IF Nullish(fn)
       THEN Throw(CannotRead(fn, "arguments")) /\ UNCHANGED verification
       ELSE LET p == JSONParse(ToStringJS(Get(fn, "arguments"))) IN
            IF ~p.ok THEN Throw(SyntaxErr) /\ UNCHANGED verification
            ELSE /\ verification' = p.value
                 /\ pc' = "respond"
                 /\ UNCHANGED exception
    /\ UNCHANGED <<req, env, claim, LOVABLE_API_KEY, response, result, toolCall,
                   responses, dispatched, bodyRead, keyRead, caught>>
    /\ UNCHANGED <<errorVars, tagVars>>

\* new Date().toISOString()
Now == Str("<ISO-8601 now>")

\* Lines 121-130.
Respond ==
    /\ pc = "respond"
    /\ IF Nullish(verification)
       THEN Throw(CannotRead(verification, "verdict")) /\ UNCHANGED responses
       ELSE /\ Return(Response(200, jsonHeaders,
                        JSONStringify([claim |-> claim,
                                       verdict |-> Get(verification, "verdict"),
                                       confidence |-> Get(verification, "confidence"),
                                       reasoning |-> Get(verification, "reasoning"),
                                       timestamp |-> Now])))
            /\ UNCHANGED exception
    /\ UNCHANGED <<req, env, claim, LOVABLE_API_KEY, response, result, toolCall,
                   verification, dispatched, bodyRead, keyRead, caught>>
    /\ UNCHANGED <<errorVars, tagVars>>

\* Mutant of Catch: the 500 is sent with the content type only.
CatchWithoutCors ==
    /\ pc = "catch"
    /\ caught' = caught + 1
    /\ Return(Response(500, ("Content-Type" :> "application/json"),
                JSONStringify(
                    [error |-> Str(IF exception.isError THEN exception.message
                                   ELSE "Unknown error"),
                     details |-> IF exception.isError THEN Str("<stack>")
                                 ELSE Undefined])))
    /\ UNCHANGED <<req, env, claim, LOVABLE_API_KEY, response, result, toolCall,
                   verification, exception, dispatched, bodyRead, keyRead>>
    /\ UNCHANGED <<errorVars, tagVars>>

\* Lines 132-141.
Catch ==
    /\ pc = "catch"
    /\ caught' = caught + 1
    /\ Return(Response(500, jsonHeaders,
                JSONStringify(
                    [error |-> Str(IF exception.isError THEN exception.message
                                   ELSE "Unknown error"),
                     details |-> IF exception.isError THEN Str("<stack>")
                                 ELSE Undefined])))
    /\ UNCHANGED <<req, env, claim, LOVABLE_API_KEY, response, result, toolCall,
                   verification, exception, dispatched, bodyRead, keyRead>>
    /\ UNCHANGED <<errorVars, tagVars>>

(***************************************************************************)
(* The three specifications                                                *)
(***************************************************************************)
ErrorIdle ==
    /\ error = Undefined
    /\ errorCode = Undefined
    /\ errorMessage = Undefined
    /\ ret = NotCalled
    /\ pcError = "idle"

TagIdle ==
    /\ tag = <<>>
    /\ tagResult = NotCalled
    /\ pcTag = "idle"

HandlerIdle ==
    /\ pc = "idle"
    /\ req = [method |-> "OPTIONS", text |-> "", readable |-> TRUE]
    /\ env = Undefined
    /\ claim = Undefined
    /\ LOVABLE_API_KEY = Undefined
    /\ response = NoResponse
    /\ result = Undefined
    /\ toolCall = Undefined
    /\ verification = Undefined
    /\ exception = NoException
    /\ responses = <<>>
    /\ dispatched = 0
    /\ bodyRead = FALSE
    /\ keyRead = FALSE
    /\ caught = 0

\* ---- getUserFriendlyError ----
InitError ==
    /\ error \in ErrorInputs
    /\ errorCode = Undefined
    /\ errorMessage = Undefined
    /\ ret = NotCalled
    /\ pcError = "call"
    /\ TagIdle
    /\ HandlerIdle

\* Line 31: the early return for a falsy argument.
ReturnUnexpected ==
    /\ pcError = "call"
    /\ ~Truthy(error)
    /\ ret' = getUserFriendlyError(error)
    /\ pcError' = "returned"
    /\ UNCHANGED <<error, errorCode, errorMessage>>
    /\ UNCHANGED <<tagVars, handlerVars>>

\* Lines 34-72.
ResolveError ==
    /\ pcError = "call"
    /\ Truthy(error)
    /\ errorCode' = ErrorCodeOf(error)
    /\ errorMessage' = ErrorMessageOf(error)
    /\ ret' = getUserFriendlyError(error)
    /\ pcError' = "returned"
    /\ UNCHANGED error
    /\ UNCHANGED <<tagVars, handlerVars>>

NextError == ReturnUnexpected \/ ResolveError

SpecError == InitError /\ [][NextError]_vars

\* ---- validateTag ----
InitTag ==
    /\ tag \in TagInputs
    /\ tagResult = NotCalled
    /\ pcTag = "call"
    /\ ErrorIdle
    /\ HandlerIdle

ValidateTag ==
    /\ pcTag = "call"
    /\ tagResult' = validateTag(tag)
    /\ pcTag' = "returned"
    /\ UNCHANGED tag
    /\ UNCHANGED <<errorVars, handlerVars>>

NextTag == ValidateTag

SpecTag == InitTag /\ [][NextTag]_vars

\* ---- verify-news ----
Init ==
    /\ pc = "start"
    /\ req \in Requests
    /\ env \in EnvValues
    /\ claim = Undefined
    /\ LOVABLE_API_KEY = Undefined
    /\ response = NoResponse
    /\ result = Undefined
    /\ toolCall = Undefined
    /\ verification = Undefined
    /\ exception = NoException
    /\ responses = <<>>
    /\ dispatched = 0
    /\ bodyRead = FALSE
    /\ keyRead = FALSE
    /\ caught = 0
    /\ ErrorIdle
    /\ TagIdle

Next ==
    \/ Preflight
    \/ ReadJson
    \/ RejectClaim
    \/ ConfigCheck
    \/ Dispatch
    \/ FetchRejects
    \/ FetchResolves
    \/ RateLimited
    \/ PaymentRequired
    \/ GatewayError
    \/ ParseResult
    \/ ExtractToolCall
    \/ ParseArguments
    \/ Respond
    \/ Catch

Spec == Init /\ [][Next]_vars

(***************************************************************************)
(* Properties of getUserFriendlyError (checked under SpecError)            *)
(***************************************************************************)
Range(f) == {f[k] : k \in DOMAIN f}

UnexpectedFallback == "An unexpected error occurred. Please try again."
GenericFallback == "An error occurred. Please try again later."

\* The message patterns in the order they are tried, each with its result.
PatternRules ==
    << <<{"invalid login credentials"}, "Invalid email or password">>,
       <<{"email not confirmed"}, "Please verify your email address">>,
       <<{"already registered", "already exists"},
         "An account with this email already exists">>,
       <<{"network", "fetch"},
         "Network error. Please check your connection and try again.">>,
       <<{"timeout"}, "Request timed out. Please try again.">> >>

\* The closed set of user-facing strings.
FriendlyStrings ==
    Range(authErrorMap) \cup Range(databaseErrorMap)
    \cup {PatternRules[i][2] : i \in DOMAIN PatternRules}
    \cup {UnexpectedFallback, GenericFallback}

\* The fields of the argument (undefined for a null/undefined argument).
RawField(e, k) == IF e.t = "object" THEN e.o[k] ELSE Undefined

\* C1: for every input, getUserFriendlyError returns a non-empty string that
\* is one of the fixed user-facing strings and is never equal to the input's
\* raw message or raw code.
C1_ClosedSetNoEcho ==
    pcError = "returned" =>
        /\ ret.t = "string"
        /\ ret.s # ""
        /\ ret.s \in FriendlyStrings
        /\ ret # RawField(error, "message")
        /\ ret # RawField(error, "code")
        /\ ret # RawField(error, "error_code")

\* First match in the fixed order: auth table, database table, message
\* patterns, generic fallback.
FirstMatch(code, message) ==
    IF code \in DOMAIN authErrorMap THEN authErrorMap[code]
    ELSE IF code \in DOMAIN databaseErrorMap THEN databaseErrorMap[code]
    ELSE LET m == toLowerCase(message)
             hits == {i \in DOMAIN PatternRules :
                        \E p \in PatternRules[i][1] : includes(m, p)}
         IN IF hits = {} THEN GenericFallback
            ELSE PatternRules[CHOOSE i \in hits : \A j \in hits : i <= j][2]

TableCodes == DOMAIN authErrorMap \cup DOMAIN databaseErrorMap
TableString(code) ==
    IF code \in DOMAIN authErrorMap THEN authErrorMap[code]
    ELSE databaseErrorMap[code]

\* C2: a null error yields the "unexpected" fallback; a non-null error is
\* resolved by first match in the order auth table, database table, the five
\* message patterns, generic fallback; for each of the 16 table codes the
\* result is exactly the mapped string whatever the message is.
C2_FirstMatchOrder ==
    pcError = "returned" =>
        /\ Nullish(error) => ret = Str(UnexpectedFallback)
        /\ ~Nullish(error) => ret = Str(FirstMatch(errorCode.s, errorMessage.s))
        /\ (RawField(error, "code").t = "string"
              /\ RawField(error, "code").s \in TableCodes)
           => ret = Str(TableString(RawField(error, "code").s))

\* Present: not null and not undefined.
Present(v) == ~Nullish(v)

\* C10 as stated: the code used for the lookups is error.code whenever it is
\* present (also when it is the empty string), error.error_code only when
\* error.code is absent, '' only when both are absent; the message used is
\* error.message whenever it is present, else ''.
C10_PresenceSelects ==
    (pcError = "returned" /\ ~Nullish(error)) =>
        /\ errorCode = (IF Present(error.o.code) THEN error.o.code
                        ELSE IF Present(error.o.error_code) THEN error.o.error_code
                        ELSE Str(""))
        /\ errorMessage = (IF Present(error.o.message) THEN error.o.message
                           ELSE Str(""))

\* C10 (amended): the code used for the lookups is error.code whenever it is
\* truthy (a non-empty string), else error.error_code whenever that is
\* truthy, else ''; an empty-string code is passed over like an absent one.
\* The message used is error.message when it is a non-empty string, else ''.
\* The returned value is the resolution of exactly these two values.
C10_TruthinessSelects ==
    (pcError = "returned" /\ ~Nullish(error)) =>
        /\ errorCode = (IF Truthy(error.o.code) THEN error.o.code
                        ELSE IF Truthy(error.o.error_code) THEN error.o.error_code
                        ELSE Str(""))
        /\ errorMessage = (IF Truthy(error.o.message) THEN error.o.message
                           ELSE Str(""))
        /\ (error.o.code = Str("") /\ error.o.error_code = Str("weak_password"))
              => ret = Str("Password must be stronger")
        /\ (~Truthy(error.o.code) /\ ~Truthy(error.o.error_code)
              /\ ~Truthy(error.o.message))
              => ret = Str(GenericFallback)

\* An empty-string code with a table error_code: the error_code decided.
C10_Witness ==
    /\ pcError = "returned"
    /\ ~Nullish(error)
    /\ error.o.code = Str("")
    /\ error.o.error_code = Str("weak_password")
    /\ errorCode = Str("weak_password")
    /\ ret = Str("Password must be stronger")

(***************************************************************************)
(* Properties of validateTag (checked under SpecTag)                       *)
(***************************************************************************)
\* The tag without its leading and trailing whitespace, by position.
Inner(t) ==
    LET solid == {i \in 1..Len(t) : ~IsWhiteSpace(t[i])} IN
    IF solid = {} THEN <<>>
    ELSE SubSeq(t, CHOOSE i \in solid : \A j \in solid : i <= j,
                   CHOOSE i \in solid : \A j \in solid : i >= j)

\* ASCII letters, digits, whitespace, hyphen, underscore.
AllowedInTag(c) ==
    \/ c \in (65..90) \cup (97..122) \cup (48..57) \cup {45, 95}
    \/ IsWhiteSpace(c)

OnlyAllowed(s) == \A i \in 1..Len(s) : AllowedInTag(s[i])

\* C9: validateTag decides on the trimmed value, in this order: empty gives
\* 'Tag cannot be empty'; else length > 50 gives the length error (also with
\* disallowed characters); else a disallowed character gives the pattern
\* error; else {valid: true} with no error.  So a tag is valid exactly when
\* its trimmed form has length 1..50 and only allowed characters; leading and
\* trailing whitespace never counts toward the limit.
C9_ValidateTagOrder ==
    pcTag = "returned" =>
        LET inner == Inner(tag) IN
        /\ inner = <<>> =>
              tagResult = [valid |-> FALSE, error |-> "Tag cannot be empty"]
        /\ Len(inner) > 50 =>
              tagResult = [valid |-> FALSE,
                           error |-> "Tag must be 50 characters or less"]
        /\ (Len(inner) \in 1..50 /\ ~OnlyAllowed(inner)) =>
              tagResult = [valid |-> FALSE,
                           error |-> "Tags can only contain letters, numbers, spaces, hyphens, and underscores"]
        /\ (Len(inner) \in 1..50 /\ OnlyAllowed(inner)) =>
              tagResult = [valid |-> TRUE]
        /\ tagResult.valid <=> (Len(inner) \in 1..50 /\ OnlyAllowed(inner))

\* A tag longer than 50 code units whose trimmed form has exactly 50: valid.
C9_Witness ==
    /\ pcTag = "returned"
    /\ Len(tag) > 50
    /\ Len(Inner(tag)) = 50
    /\ tagResult = [valid |-> TRUE]

(***************************************************************************)
(* Properties of the verify-news handler (checked under Spec)              *)
(***************************************************************************)
Done == pc = "done"
Sent(i) == responses[i]
ErrorBody(message) == Obj([error |-> Str(message)])
MissingClaimBody == ErrorBody("Missing or invalid 'claim' field")

\* The request carries a JSON body; RequestValue is the value it denotes.
RequestIsJson == req.readable /\ JSONParse(req.text).ok
RequestValue == JSONParse(req.text).value

\* The body is a JSON object with a `claim` field that is a string.
HasStringClaim(v) ==
    /\ v.t = "object"
    /\ "claim" \in DOMAIN v.o
    /\ v.o["claim"].t = "string"

\* C3: the upstream POST is dispatched at most once per request (no retry on
\* any upstream status or exception), only after the claim check has passed
\* and the API key has been found present; a 200 verdict response is produced
\* only after exactly one dispatch; the OPTIONS path, the 400 path and the
\* missing-key path dispatch nothing.
C3_OneRoundTrip ==
    /\ dispatched <= 1
    /\ dispatched >= 1 =>
          /\ bodyRead /\ ~ClaimInvalid(claim)
          /\ keyRead /\ Truthy(LOVABLE_API_KEY)
    /\ \A i \in 1..Len(responses) :
          /\ (req.method # "OPTIONS" /\ Sent(i).status = 200) => dispatched = 1
          /\ Sent(i).status = 400 => dispatched = 0
    /\ req.method = "OPTIONS" => dispatched = 0
    /\ (keyRead /\ ~Truthy(LOVABLE_API_KEY)) => dispatched = 0
    /\ pc \in {"awaitFetch", "checkOk", "extract", "parseArguments", "respond"}
          => dispatched = 1

\* A verdict was returned after one round trip.
C3_Witness ==
    /\ Done
    /\ req.method = "POST"
    /\ responses # <<>>
    /\ Sent(1).status = 200
    /\ dispatched = 1

\* The fetch resolved with a non-2xx status.
UpstreamFailed == response # NoResponse /\ ~Ok(response)

GatewayErrorBody ==
    Obj([error |-> Str("AI gateway error"), details |-> Str(response.text)])

CaughtBody(e) == Obj([error |-> Str(e.message), details |-> Str("<stack>")])

C4_FixedStatuses ==
    /\ response.status = 429 =>
          responses = <<Response(429, jsonHeaders,
                          ErrorBody("Rate limit exceeded. Please try again later."))>>
    /\ response.status = 402 =>
          responses = <<Response(402, jsonHeaders,
                          ErrorBody("Payment required. Please add credits to your Lovable AI workspace."))>>

\* C4 as stated: on a non-2xx upstream status the response is determined by
\* the status alone: 429 and 402 give their fixed responses whatever the
\* upstream body is, every other non-2xx status gives 500 with
\* {error: 'AI gateway error', details: <raw upstream body text>}; the
\* upstream body is never parsed for a tool call.
C4_StatusAloneDecides ==
    (Done /\ UpstreamFailed) =>
        /\ C4_FixedStatuses
        /\ response.status \notin {429, 402} =>
              responses = <<Response(500, jsonHeaders, GatewayErrorBody)>>
        /\ result = Undefined /\ toolCall = Undefined /\ verification = Undefined

\* C4 (amended): 429 and 402 give their fixed responses whatever the upstream
\* body is; every other non-2xx status gives status 500, with
\* {error: 'AI gateway error', details: <raw upstream body text>} when the
\* upstream body could be read, and with the caught read error's
\* {error: <its message>, details: <its stack>} when reading the body fails.
\* In no case is the upstream body parsed for a tool call.
C4_StatusAndReadDecide ==
    (Done /\ UpstreamFailed) =>
        /\ C4_FixedStatuses
        /\ (response.status \notin {429, 402} /\ response.readable) =>
              responses = <<Response(500, jsonHeaders, GatewayErrorBody)>>
        /\ (response.status \notin {429, 402} /\ ~response.readable) =>
              responses = <<Response(500, jsonHeaders, CaughtBody(BodyReadErr))>>
        /\ result = Undefined /\ toolCall = Undefined /\ verification = Undefined

\* A 503 whose body, itself a well-formed tool-call reply, is passed on raw.
C4_Witness ==
    /\ Done
    /\ response # NoResponse
    /\ response.status = 503
    /\ response.readable
    /\ JSONParse(response.text).ok
    /\ ~Nullish(JSONParse(response.text).value)
    /\ Truthy(FirstToolCall(JSONParse(response.text).value))
    /\ responses = <<Response(500, jsonHeaders, GatewayErrorBody)>>

\* C5: every non-OPTIONS request whose JSON body has no `claim` field, or a
\* `claim` that is not a string (bodies such as {} and bodies that are not
\* JSON objects included), is answered 400 {error: "Missing or invalid
\* 'claim' field"}, and that is terminal: the API key is not read and no
\* upstream call is made.
C5_MissingClaimIs400 ==
    (req.method # "OPTIONS" /\ RequestIsJson /\ ~HasStringClaim(RequestValue)) =>
        /\ ~keyRead
        /\ dispatched = 0
        /\ Done => responses = <<Response(400, jsonHeaders, MissingClaimBody)>>

\* The upstream reply carries a tool call: its first choice's message has a
\* non-empty tool_calls array whose first entry is an object.
HasToolCall(v) ==
    /\ v.t = "object" /\ "choices" \in DOMAIN v.o
    /\ v.o["choices"].t = "array" /\ v.o["choices"].a # <<>>
    /\ LET c == v.o["choices"].a[1] IN
       /\ c.t = "object" /\ "message" \in DOMAIN c.o
       /\ c.o["message"].t = "object" /\ "tool_calls" \in DOMAIN c.o["message"].o
       /\ LET tc == c.o["message"].o["tool_calls"] IN
          /\ tc.t = "array" /\ tc.a # <<>>
          /\ tc.a[1].t = "object"

\* The fetch resolved 2xx with a JSON body.
UpstreamReplied ==
    /\ response # NoResponse /\ Ok(response)
    /\ response.readable /\ JSONParse(response.text).ok
UpstreamValue == JSONParse(response.text).value

\* C6: any exception raised after the claim check is caught once at the outer
\* boundary and produces exactly one response, status 500, whose `error` is
\* the exception's message; a missing key yields 'LOVABLE_API_KEY is not
\* configured'; a 2xx upstream reply without a tool call yields 'No tool call
\* in AI response'.  No request ends without a response.
C6_CaughtOnce ==
    /\ caught <= 1
    /\ (Done /\ exception # NoException) =>
          /\ caught = 1
          /\ Len(responses) = 1
          /\ Sent(1).status = 500
          /\ Get(Sent(1).body, "error") = Str(exception.message)
    /\ (Done /\ keyRead /\ ~Truthy(LOVABLE_API_KEY)) =>
          /\ Len(responses) = 1
          /\ Sent(1).status = 500
          /\ Get(Sent(1).body, "error") = Str("LOVABLE_API_KEY is not configured")
    /\ (Done /\ UpstreamReplied /\ ~HasToolCall(UpstreamValue)) =>
          /\ Len(responses) = 1
          /\ Sent(1).status = 500
          /\ Get(Sent(1).body, "error") = Str("No tool call in AI response")
    /\ Done => Len(responses) = 1
    /\ ~Done => ENABLED Next

\* The arguments of the first tool call of the first choice, parsed.
FirstArguments(v) ==
    JSONParse(v.o["choices"].a[1].o["message"].o["tool_calls"].a[1]
                .o["function"].o["arguments"].s).value

Verdicts == {Str("True"), Str("False"), Str("Uncertain")}

\* C7: every 200 response to a non-OPTIONS request is a VerificationResult:
\* `claim` is the request's claim string, `verdict` is one of "True", "False",
\* "Uncertain", `confidence` is a number in [0,100], and verdict, confidence
\* and reasoning are those of the arguments of the first tool call of the
\* first choice of the upstream reply.
C7_VerificationResult ==
    \A i \in 1..Len(responses) :
        (req.method # "OPTIONS" /\ Sent(i).status = 200) =>
            LET body == Sent(i).body IN
            /\ HasStringClaim(RequestValue)
            /\ Get(body, "claim") = RequestValue.o["claim"]
            /\ Get(body, "verdict") \in Verdicts
            /\ Get(body, "confidence").t = "number"
            /\ Get(body, "confidence").n \in 0..100
            /\ Get(body, "verdict") = Get(FirstArguments(UpstreamValue), "verdict")
            /\ Get(body, "confidence") = Get(FirstArguments(UpstreamValue), "confidence")
            /\ Get(body, "reasoning") = Get(FirstArguments(UpstreamValue), "reasoning")

HasCors(r) ==
    /\ "Access-Control-Allow-Origin" \in DOMAIN r.headers
    /\ r.headers["Access-Control-Allow-Origin"] = "*"
    /\ "Access-Control-Allow-Headers" \in DOMAIN r.headers
    /\ r.headers["Access-Control-Allow-Headers"]
          = "authorization, x-client-info, apikey, content-type"

\* C8: every response, on every path, carries both CORS headers; an OPTIONS
\* request is answered with an empty body without reading the request body or
\* the API key and without calling upstream.
C8_CorsEverywhere ==
    /\ \A i \in 1..Len(responses) : HasCors(Sent(i))
    /\ req.method = "OPTIONS" =>
          /\ ~bodyRead /\ ~keyRead /\ dispatched = 0
          /\ Done => (Len(responses) = 1 /\ Sent(1).body = Null)
    /\ Done => Len(responses) = 1

\* A caught exception was answered, with the CORS headers.
C8_Witness ==
    /\ Done
    /\ caught = 1
    /\ Len(responses) = 1
    /\ Sent(1).status = 500
    /\ HasCors(Sent(1))

=============================================================================
